---- MODULE Spec2Model ----
(***************************************************************************)
(* Model of the Jorudan transit Lambda (src/unnamed/part_007, the current  *)
(* JSON variant of src/index.mjs): the three-call cookie/redirect fetch,   *)
(* the marker split, candidate split, field extraction, malformed filter   *)
(* and the dispatcher's catch-all.                                         *)
(*                                                                         *)
(* Strings are sequences of tokens.  A token is either one character       *)
(* ("/", "@", "sp", "nl", ...) or a fixed substring the code searches for  *)
(* as a whole ("T" is the label 発着時間 plus the full-width colon, "HR"   *)
(* is <hr size="1" color="black" />, "://" is the three characters).       *)
(***************************************************************************)
EXTENDS Integers, Sequences, FiniteSets, TLC

\* ------------------------------------------------------------------ bounds
MaxHrefLen == 3     \* longest redirect path (tokens) the upstream page carries
MaxLocLen == 3      \* longest Location header (tokens)
MaxBlocks == 3      \* most candidate blocks in the target segment
MaxEventPathLen == 2  \* longest event path (tokens)
MaxSetCookies == 2    \* most Set-Cookie lines of one response
MaxFieldChunks == 4   \* most pieces of a summary text
MaxRouteChunks == 4   \* most pieces of a route text

\* ------------------------------------------------------ program constants
MIN_EXPECTED_BLOCKS == 3
TARGET_BLOCK_INDEX == 2
MAX_CANDIDATES == 2
REQUEST_TIMEOUT_MS == 3000

Null == <<"null">>                \* null / undefined where a string is expected
Rejected == <<"rejected">>        \* safeJoinUrl threw
Malformed == <<"malformed">>      \* decodeURIComponent threw

\* ------------------------------------------------------- generic sequences
RECURSIVE SeqsUpTo(_, _)
SeqsUpTo(A, n) ==
  IF n = 0 THEN {<<>>}
  ELSE LET shorter == SeqsUpTo(A, n - 1)
       IN  shorter \cup {Append(s, a) : s \in {t \in shorter : Len(t) = n - 1}, a \in A}

RECURSIVE Concat(_)
Concat(ss) == IF ss = <<>> THEN <<>> ELSE Head(ss) \o Concat(Tail(ss))

Drop(s, n) == SubSeq(s, n + 1, Len(s))
Take(s, n) == SubSeq(s, 1, n)

\* String.prototype.split on a separator that is one token of seps: cur is
\* the piece being collected
RECURSIVE SplitOnFrom(_, _, _, _)
SplitOnFrom(s, i, cur, seps) ==
  IF i > Len(s) THEN <<cur>>
  ELSE IF s[i] \in seps THEN <<cur>> \o SplitOnFrom(s, i + 1, <<>>, seps)
  ELSE SplitOnFrom(s, i + 1, Append(cur, s[i]), seps)

StartsWith(s, p) == Len(s) >= Len(p) /\ SubSeq(s, 1, Len(p)) = p
Includes(s, p) == \E i \in 1..(Len(s) - Len(p) + 1) : SubSeq(s, i, i + Len(p) - 1) = p
HasToken(s, t) == \E i \in 1..Len(s) : s[i] = t

\* --------------------------------------------------- JavaScript character classes
\* \s of a JavaScript regular expression and of String.prototype.trim
WhiteSpace == {"sp", "fsp", "nl", "cr"}
\* line terminators: what "." does not match and where "$" (flag m) matches
LineTerminator == {"nl", "cr"}

\* String.prototype.trim
RECURSIVE TrimStart(_)
TrimStart(s) ==
  IF s # <<>> /\ Head(s) \in WhiteSpace THEN TrimStart(Tail(s)) ELSE s
RECURSIVE TrimEnd(_)
TrimEnd(s) ==
  IF s # <<>> /\ s[Len(s)] \in WhiteSpace THEN TrimEnd(Take(s, Len(s) - 1)) ELSE s
Trim(s) == TrimEnd(TrimStart(s))

\* length of the match of /\r?\n\r?\n/ that starts at position i, 0 if none
BlankLineAt(s, i) ==
  LET at(k) == IF k <= Len(s) THEN s[k] ELSE "eof"
      p == IF at(i) = "cr" THEN i + 1 ELSE i     \* position of the first \n
  IN  IF at(p) # "nl" THEN 0
      ELSE IF at(p + 1) = "cr" /\ at(p + 2) = "nl" THEN p + 2 - i + 1
      ELSE IF at(p + 1) = "nl" THEN p + 1 - i + 1
      ELSE 0

\* String.prototype.split(/\r?\n\r?\n/): cur is the piece being collected
RECURSIVE SplitBlankFrom(_, _, _)
SplitBlankFrom(s, i, cur) ==
  IF i > Len(s) THEN <<cur>>
  ELSE LET m == BlankLineAt(s, i)
       IN  IF m > 0 THEN <<cur>> \o SplitBlankFrom(s, i + m, <<>>)
           ELSE SplitBlankFrom(s, i + 1, Append(cur, s[i]))
SplitBlank(s) == SplitBlankFrom(s, 1, <<>>)

\* sections[k] || '' with a 0-based index k
SectionOr(sections, k) == IF k + 1 <= Len(sections) THEN sections[k + 1] ELSE <<>>

\* ------------------------------------------------------------ field labels
TimeLabel == "T"         \* 発着時間：
DurationLabel == "D"     \* 所要時間：
TransfersLabel == "N"    \* 乗換回数：

RECURSIVE TakeLine(_)
TakeLine(s) ==
  IF s = <<>> \/ Head(s) \in LineTerminator THEN <<>>
  ELSE <<Head(s)>> \o TakeLine(Tail(s))

\* a capture that runs to the end of the text, ([^]*)
extractField_toEnd(summary, label) ==
  IF \A k \in 1..Len(summary) : summary[k] # label THEN <<>>
  ELSE LET i == CHOOSE k \in 1..Len(summary) :
                  summary[k] = label /\ \A j \in 1..(k - 1) : summary[j] # label
       IN  SubSeq(summary, i + 1, Len(summary))

\* summary.match(new RegExp(`${label}：([^\r\n]*)`)): first occurrence of the
\* label, captured up to the next \r or \n; '' when the label does not occur
RECURSIVE extractField(_, _)
extractField(summary, label) ==
  IF summary = <<>> THEN <<>>
  ELSE IF Head(summary) = label THEN TakeLine(Tail(summary))
  ELSE extractField(Tail(summary), label)

\* `${time}(${duration})(${transfers})`
getSummary(block) ==
  LET summary == SectionOr(SplitBlank(Trim(block)), 0)
      time == extractField(summary, TimeLabel)
      duration == extractField(summary, DurationLabel)
      transfers == extractField(summary, TransfersLabel)
  IN  time \o <<"(">> \o duration \o <<")", "(">> \o transfers \o <<")">>

EmptySummary == <<"(", ")", "(", ")">>     \* the sentinel '()()'

\* .replace(/｜ 　/g, '｜')
RECURSIVE CollapseSeparator(_)
CollapseSeparator(s) ==
  IF s = <<>> THEN <<>>
  ELSE IF StartsWith(s, <<"bar", "sp", "fsp">>)
       THEN <<"bar">> \o CollapseSeparator(Drop(s, 3))
       ELSE <<Head(s)>> \o CollapseSeparator(Tail(s))

\* length of the whitespace run that starts at the head of s
RECURSIVE WsRun(_)
WsRun(s) == IF s # <<>> /\ Head(s) \in WhiteSpace THEN 1 + WsRun(Tail(s)) ELSE 0

\* length of the match of /\s+$/m at the head of s (0 if none): the longest
\* prefix of the whitespace run that ends at the end of the input or just
\* before a line terminator (\s+ is greedy and backtracks)
TrailingWsAt(s) ==
  LET run == WsRun(s)
      ends == {j \in 1..run : j = Len(s) \/ s[j + 1] \in LineTerminator}
  IN  IF ends = {} THEN 0 ELSE CHOOSE j \in ends : \A k \in ends : k <= j

\* .replace(/\s+$/gm, '')
RECURSIVE StripTrailing(_)
StripTrailing(s) ==
  IF s = <<>> THEN <<>>
  ELSE LET m == TrailingWsAt(s)
       IN  IF m > 0 THEN StripTrailing(Drop(s, m))
           ELSE <<Head(s)>> \o StripTrailing(Tail(s))

\* the third replacement left out
StripAfterGap_none(s) == s

\* .replace(/\s{2,}(.*)$/gm, ''): a run of two or more whitespace characters
\* and the rest of that line
RECURSIVE StripAfterGap(_)
StripAfterGap(s) ==
  IF s = <<>> THEN <<>>
  ELSE LET run == WsRun(s)
       IN  IF run >= 2
           THEN LET rest == Drop(s, run)
                IN  StripAfterGap(Drop(rest, Len(TakeLine(rest))))
           ELSE <<Head(s)>> \o StripAfterGap(Tail(s))

getRoute(block) ==
  LET route == SectionOr(SplitBlank(Trim(block)), 1)
  IN  StripAfterGap(StripTrailing(CollapseSeparator(route)))

\* splitRoutes with a consuming separator, split(/発着時間：/)
splitRoutes_consume(block) ==
  SelectSeq(SplitOnFrom(block, 1, <<>>, {"T"}),
            LAMBDA r : Trim(r) # <<>> /\ HasToken(r, "T"))

\* block.split(/(?=発着時間：)/): cut before every label that is not at position 0
RECURSIVE SplitAtLabelFrom(_, _, _)
SplitAtLabelFrom(s, i, cur) ==
  IF i > Len(s) THEN <<cur>>
  ELSE IF s[i] = TimeLabel /\ i > 1
       THEN <<cur>> \o SplitAtLabelFrom(s, i + 1, <<s[i]>>)
       ELSE SplitAtLabelFrom(s, i + 1, Append(cur, s[i]))

\* splitRoutes without its filter
splitRoutes_noFilter(block) == SplitAtLabelFrom(block, 1, <<>>)

splitRoutes(block) ==
  SelectSeq(SplitAtLabelFrom(block, 1, <<>>),
            LAMBDA r : Trim(r) # <<>> /\ HasToken(r, TimeLabel))

\* --------------------------------------------------------------------- URLs
\* URL tokens: "/" ":" "%" are single characters; "://" is the three
\* characters; "https" "http" are scheme names, "HTTPS" is the scheme https
\* spelled in upper case; "jorudan" is the host text www.jorudan.co.jp;
\* "evil" and "x" are other (non-hex) text; ":8080" is a port suffix; "?url="
\* opens a query string with the parameter url; "%2F" is an escaped slash;
\* "nori" is the fixed path and query of JORUDAN_URL.
JORUDAN_BASE_URL == <<"https", "://", "jorudan">>
JORUDAN_URL == JORUDAN_BASE_URL \o <<"/", "nori">>

SchemeTokens == {"https", "http", "HTTPS"}
HostTextTokens == {"jorudan", "evil", "x", "https", "http", "HTTPS", "nori", "8080"}

\* the scheme of a parsed URL is lower case
SchemeOf(t) == IF t = "HTTPS" THEN "https" ELSE t

\* the prefix of s before the first token of the set stop
RECURSIVE TakeUntil(_, _)
TakeUntil(s, stop) ==
  IF s = <<>> \/ Head(s) \in stop THEN <<>>
  ELSE <<Head(s)>> \o TakeUntil(Tail(s), stop)

RECURSIVE DropSlashes(_)
DropSlashes(s) == IF s # <<>> /\ Head(s) = "/" THEN DropSlashes(Tail(s)) ELSE s

InvalidUrl == [scheme |-> "invalid", host |-> <<>>, port |-> <<>>]

\* new URL(u).origin, InvalidUrl where the constructor throws (no scheme and
\* no base, empty host, bad port).  The schemes are special ones: after
\* "scheme:" any run of slashes is skipped, the authority runs to the next
\* "/" or "?" (a "://" inside it is a ":" that ends it), its host is the
\* concatenated host text, and a port may follow; an empty port is the
\* default one.
UrlOrigin(u) ==
  IF Len(u) < 2 \/ u[1] \notin SchemeTokens \/ u[2] \notin {":", "://", ":8080"}
  THEN InvalidUrl
  ELSE LET afterScheme == IF u[2] = ":8080" THEN <<"8080">> \o Drop(u, 2)
                          ELSE DropSlashes(Drop(u, 2))
           authority == TakeUntil(afterScheme, {"/", "?url=", "://"})
           host == TakeUntil(authority, {":", ":8080"})
           port == Drop(authority, Len(host))
       IN  IF host = <<>> \/ \E i \in 1..Len(host) : host[i] \notin HostTextTokens
           THEN InvalidUrl
           ELSE IF port \notin {<<>>, <<":">>, <<":8080">>} THEN InvalidUrl
           ELSE [scheme |-> SchemeOf(u[1]), host |-> host,
                 port |-> IF port = <<":">> THEN <<>> ELSE port]

TrustedOrigin == [scheme |-> "https", host |-> <<"jorudan">>, port |-> <<>>]

\* new URL(u).searchParams.get('url'): the text after the first "?url=",
\* percent-decoded; Null when the URL has no query
SearchParamUrl(u) ==
  IF ~HasToken(u, "?url=") THEN Null
  ELSE LET i == CHOOSE k \in 1..Len(u) : u[k] = "?url=" /\ \A j \in 1..(k - 1) : u[j] # "?url="
       IN  [k \in 1..(Len(u) - i) |-> IF u[i + k] = "%2F" THEN "/" ELSE u[i + k]]

\* decodeURIComponent: Malformed where it throws URIError
decodeURIComponent(s) ==
  IF HasToken(s, "%") THEN Malformed
  ELSE [k \in 1..Len(s) |-> IF s[k] = "%2F" THEN "/" ELSE s[k]]

\* path.startsWith('//') || path.includes('://')
UnsafePath(path) ==
  \/ StartsWith(path, <<"/", "/">>)
  \/ HasToken(path, "://")
  \/ Includes(path, <<":", "/", "/">>)

\* safeJoinUrl that only looks for a leading "//"
safeJoinUrl_noProtocolCheck(base, path) ==
  IF StartsWith(path, <<"/", "/">>) THEN Rejected
  ELSE base \o (IF StartsWith(path, <<"/">>) THEN <<>> ELSE <<"/">>) \o path

\* safeJoinUrl that concatenates without inserting the missing slash
safeJoinUrl_noSlash(base, path) ==
  IF UnsafePath(path) THEN Rejected ELSE base \o path

\* safeJoinUrl: Rejected where it throws
safeJoinUrl(base, path) ==
  IF UnsafePath(path) THEN Rejected
  ELSE base \o (IF StartsWith(path, <<"/">>) THEN <<>> ELSE <<"/">>) \o path

\* a redirect detection that is skipped when the page carries the marker
extractRedirectUrl_unlessMarker(body) ==
  IF body.href = <<>> \/ (\E i \in 1..Len(body.html) : body.html[i] \in {"HR", "hr1"})
  THEN <<"null">>
  ELSE body.href

\* body.match(/window\.location\.href="([^"]+)"/): the body carries the
\* assigned text in its field href; an empty assignment does not match
extractRedirectUrl(body) == IF body.href = <<>> THEN Null ELSE body.href

\* Set-Cookie header tokens: "a=1" "b=2" are name=value pairs whose name is
\* made of word characters, "c-d=3" is a pair whose name has a hyphen,
\* ";Path" is the attribute "; Path=/", ";Exp" is "; Expires=Wed" and "date"
\* the rest of that date after its comma, "," is a comma, "sp" a space.
\* split(/,(?=\s*\w+=)/), keep the text before the first ";", trim, drop
\* blanks, join with "; "
PairTokens == {"a=1", "b=2"}
AttrTokens == {";Path", ";Exp"}
RECURSIVE CookieParts(_, _)
CookieParts(h, cur) ==
  IF h = <<>> THEN <<cur>>
  ELSE IF Head(h) = "," /\ TrimStart(Tail(h)) # <<>> /\ Head(TrimStart(Tail(h))) \in PairTokens
       THEN <<cur>> \o CookieParts(Tail(h), <<>>)
       ELSE CookieParts(Tail(h), Append(cur, Head(h)))

CookiePairs(h) ==
  LET parts == CookieParts(h, <<>>)
      firsts == [i \in 1..Len(parts) |-> Trim(TakeUntil(parts[i], AttrTokens))]
  IN  SelectSeq(firsts, LAMBDA c : c # <<>>)

RECURSIVE JoinCookies(_)
JoinCookies(ps) ==
  IF ps = <<>> THEN <<>>
  ELSE IF Len(ps) = 1 THEN Head(ps)
  ELSE Head(ps) \o <<"; ">> \o JoinCookies(Tail(ps))

extractCookies(setCookie) == IF setCookie = <<>> THEN <<>> ELSE JoinCookies(CookiePairs(setCookie))

\* cookies ? `${cookies}; ${newCookies}` : newCookies, when newCookies is set
MergeCookies(cookies, newCookies) ==
  IF newCookies = <<>> THEN cookies
  ELSE IF cookies = <<>> THEN newCookies
  ELSE cookies \o <<"; ">> \o newCookies

\* ------------------------------------------------------------ page markers
\* "HR" is <hr size="1" color="black" />, "HRU" the same tag in upper case
\* (the split is case-insensitive, includes() is not), "hr1" is <hr size="1">
\* with other attributes (contains the marker text, is no split point)
SplitTokens == {"HR", "HRU"}
MarkerTokens == {"HR", "hr1"}

\* a marker check that accepts every body
IncludesMarker_always(html) == TRUE

\* body.includes('<hr size="1"')
IncludesMarker(html) == \E i \in 1..Len(html) : html[i] \in MarkerTokens

\* a split at every tag that carries the marker text
SplitHr_anyMarker(html) == SplitOnFrom(html, 1, <<>>, {"HR", "HRU", "hr1"})

\* body.split(/<hr size="1" color="black"\s*\/?>/i)
SplitHr(html) == SplitOnFrom(html, 1, <<>>, SplitTokens)

\* ------------------------------------------------------------- the dispatcher
JSON_HEADERS ==
  [ContentType |-> "application/json", AccessControlAllowOrigin |-> "*",
   AccessControlAllowHeaders |-> "Content-Type,Authorization",
   AccessControlAllowMethods |-> "GET,OPTIONS"]

createJsonResponse(statusCode, data) ==
  [statusCode |-> statusCode, headers |-> JSON_HEADERS, body |-> data]

NoResponse == [statusCode |-> 0]

GenericError == "Failed to fetch transit information"

\* no prefix stripped: path || '/'
normalizePath_noStrip(path) == IF path = <<>> THEN <<"/">> ELSE path

\* path.replace(/^\/api/, '') || '/'
normalizePath(path) ==
  LET stripped == IF StartsWith(path, <<"/api">>) THEN Tail(path) ELSE path
  IN  IF stripped = <<>> THEN <<"/">> ELSE stripped

\* event.path || event.rawPath || '/transit'
RawPath(ev) ==
  IF ev.path \notin {Null, <<>>} THEN ev.path
  ELSE IF ev.rawPath \notin {Null, <<>>} THEN ev.rawPath
  ELSE <<"/transit">>

\* a route test that accepts every path under /status
IsStatusRoute_startsWith(ev) == StartsWith(normalizePath(RawPath(ev)), <<"/status">>)

IsStatusRoute(ev) == normalizePath(RawPath(ev)) = <<"/status">>

\* no cap: routes.slice(0)
SliceCandidates_noCap(routes) == routes

\* routes.slice(0, MAX_CANDIDATES)
SliceCandidates(routes) ==
  Take(routes, IF Len(routes) < MAX_CANDIDATES THEN Len(routes) ELSE MAX_CANDIDATES)

\* a filter that only looks at the summary
KeepTransfer_summaryOnly(t) == t[1] # <<"(", ")", "(", ")">>

\* .filter(([summary, route]) => summary !== '()()' && route.trim())
KeepTransfer(t) == t[1] # EmptySummary /\ Trim(t[2]) # <<>>

\* blocks.length < MIN_EXPECTED_BLOCKS
TooFewBlocks(blocks) == Len(blocks) < MIN_EXPECTED_BLOCKS
\* routes.length === 0
NoRoutes(routes) == Len(routes) = 0
\* the empty-result check left out
NoValidRoutes_never(transfers) == FALSE

\* transfers.length === 0
NoValidRoutes(transfers) == Len(transfers) = 0

\* the try block with the filter applied to every candidate before the cap
Pipeline_filterFirst(html) ==
  LET blocks == SplitHr(html)
  IN  IF TooFewBlocks(blocks)
      THEN [thrown |-> "Unexpected HTML structure: insufficient blocks",
            transfers |-> <<>>, extracted |-> <<>>]
      ELSE LET routes == splitRoutes(blocks[TARGET_BLOCK_INDEX + 1])
           IN  IF NoRoutes(routes)
               THEN [thrown |-> "No transit routes found in response",
                     transfers |-> <<>>, extracted |-> <<>>]
               ELSE LET mapped == [i \in 1..Len(routes) |->
                                     <<getSummary(routes[i]), getRoute(routes[i])>>]
                        transfers == SliceCandidates(SelectSeq(mapped, KeepTransfer))
                    IN  IF NoValidRoutes(transfers)
                        THEN [thrown |-> "No valid transit routes found in response",
                              transfers |-> <<>>, extracted |-> routes]
                        ELSE [thrown |-> "none", transfers |-> transfers,
                              extracted |-> routes]

\* the try block of handler after the page is fetched: thrown is the message
\* of the Error thrown ("none" if the block returns), transfers the list it
\* returns, extracted the blocks it handed to getSummary/getRoute
Pipeline(html) ==
  LET blocks == SplitHr(html)
  IN  IF TooFewBlocks(blocks)
      THEN [thrown |-> "Unexpected HTML structure: insufficient blocks",
            transfers |-> <<>>, extracted |-> <<>>]
      ELSE LET routes == splitRoutes(blocks[TARGET_BLOCK_INDEX + 1])
           IN  IF NoRoutes(routes)
               THEN [thrown |-> "No transit routes found in response",
                     transfers |-> <<>>, extracted |-> <<>>]
               ELSE LET taken == SliceCandidates(routes)
                        mapped == [i \in 1..Len(taken) |->
                                     <<getSummary(taken[i]), getRoute(taken[i])>>]
                        transfers == SelectSeq(mapped, KeepTransfer)
                    IN  IF NoValidRoutes(transfers)
                        THEN [thrown |-> "No valid transit routes found in response",
                              transfers |-> <<>>, extracted |-> taken]
                        ELSE [thrown |-> "none", transfers |-> transfers,
                              extracted |-> taken]

\* a catch block that rethrows
Caught_rethrow(message) ==
  [outcome |-> "rejected", logged |-> message, response |-> [statusCode |-> 0]]

\* a catch block that answers with the error's own message
Caught_leak(message) ==
  [outcome |-> "returned", logged |-> message,
   response |-> createJsonResponse(500, [error |-> message])]

\* the catch block of handler: log the detail, answer with the fixed body
Caught(message) ==
  [outcome |-> "returned", logged |-> message,
   response |-> createJsonResponse(500, [error |-> GenericError])]

\* return createJsonResponse(200, { transfers })
Returned(transfers) ==
  [outcome |-> "returned", logged |-> "none",
   response |-> createJsonResponse(200, [transfers |-> transfers])]

\* finalUrl.startsWith('http'), case-sensitive
StartsWithHttp(s) == s # <<>> /\ s[1] \in {"http", "https"}

\* a resolution that reads the query parameter and never the Location header
ResolveFinalUrl_paramOnly(loc, ru) ==
  LET urlParam == SearchParamUrl(ru)
  IN  IF urlParam \in {Null, <<>>}
      THEN [thrown |-> "Could not determine final URL after redirect", url |-> Null]
      ELSE LET decoded == decodeURIComponent(urlParam)
               joined == safeJoinUrl(JORUDAN_BASE_URL, decoded)
           IN  IF decoded = Malformed
               THEN [thrown |-> "URIError: URI malformed", url |-> Null]
               ELSE IF joined = Rejected
               THEN [thrown |-> "Invalid redirect path detected", url |-> Null]
               ELSE [thrown |-> "none", url |-> joined]

\* final URL resolution of fetchTransitPage: thrown is the message of the
\* error ("none" if a URL was resolved), url the resolved finalUrl
ResolveFinalUrl(loc, ru) ==
  IF loc # <<>>
  THEN IF StartsWithHttp(loc)
       THEN LET origin == UrlOrigin(loc)
            IN  IF origin = InvalidUrl
                THEN [thrown |-> "TypeError: Invalid URL", url |-> Null]
                ELSE IF origin # TrustedOrigin
                THEN [thrown |-> "Invalid redirect: unexpected domain", url |-> Null]
                ELSE [thrown |-> "none", url |-> loc]
       ELSE LET joined == safeJoinUrl(JORUDAN_BASE_URL, loc)
            IN  IF joined = Rejected
                THEN [thrown |-> "Invalid redirect path detected", url |-> Null]
                ELSE [thrown |-> "none", url |-> joined]
  ELSE LET urlParam == SearchParamUrl(ru)
       IN  IF urlParam \in {Null, <<>>}
           THEN [thrown |-> "Could not determine final URL after redirect", url |-> Null]
           ELSE LET decoded == decodeURIComponent(urlParam)
                    joined == safeJoinUrl(JORUDAN_BASE_URL, decoded)
                IN  IF decoded = Malformed
                    THEN [thrown |-> "URIError: URI malformed", url |-> Null]
                    ELSE IF joined = Rejected
                    THEN [thrown |-> "Invalid redirect path detected", url |-> Null]
                    ELSE [thrown |-> "none", url |-> joined]

\* a call of fetch: the URL, the Cookie header (<<>> if none is sent) and the
\* redirect mode
Request(url, cookie, redirect) == [url |-> url, cookie |-> cookie, redirect |-> redirect]

\* ------------------------------------------------------- upstream and events
\* The inputs are explored in families: each family varies one input richly
\* and takes representative values for the others.
Families == {"event", "href", "location", "cookie", "page", "status", "latency", "follow"}

HrefAlphabet == {"/", "://", "x", "?url=", "%2F", "%"}
LocAlphabet == {"/", ":", "://", "https", "http", "HTTPS", "jorudan", "evil", ":8080"}
PathAlphabet == {"/api", "/status", "/transit"}

\* candidate blocks: three labelled fields, a blank line, the route lines
WellFormed(v, eol) ==
  <<"T", v>> \o eol \o <<"D", v>> \o eol \o <<"N", v>> \o eol \o eol
  \o <<v>> \o eol \o <<"bar", "sp", "fsp", v>> \o eol \o <<v>>

LF == <<"nl">>
CRLF == <<"cr", "nl">>

WellFormedBlocks == {WellFormed("x", LF), WellFormed("z", CRLF)}

MalformedBlocks ==
  { <<"T", "cr", "nl", "cr", "nl">>,           \* empty fields, no route
    <<"T", "x", "nl", "nl">>,                   \* fields, blank route
    <<"T", "nl", "nl", "x">>,                   \* empty fields, a route
    <<"T", "x", "nl", "nl", "sp", "sp", "x">> } \* route line behind a gap

CandidateBlocks == WellFormedBlocks \cup MalformedBlocks

\* target segments: an optional preamble, then up to MaxBlocks blocks
Segments ==
  { pre \o Concat(bs) : pre \in {<<>>, <<"x", "nl">>},
                        bs \in SeqsUpTo(CandidateBlocks, MaxBlocks) }

\* segments of at most one block, for the pages of unusual structure
ShortSegments ==
  { pre \o b : pre \in {<<>>, <<"x", "nl">>}, b \in CandidateBlocks \cup {<<>>} }

\* other page structures: tags in upper case, a tag with other attributes,
\* fewer than three segments
PagePrefixes ==
  { <<"x", "HRU", "x", "HR">>, <<"x", "HRU", "x", "HRU">>,
    <<"x", "hr1", "x", "HR">>, <<"x", "HR">>, <<"hr1">> }
StandardPrefix == <<"x", "HR", "x", "HR">>
PageSuffix == <<"HR", "x">>

GoodPage == StandardPrefix \o WellFormed("x", LF) \o PageSuffix
BasePages == { <<>>, <<"x", "HR", "x">>, GoodPage }

RichPages ==
  { StandardPrefix \o seg \o q : seg \in Segments, q \in {<<>>, PageSuffix} }
  \cup { p \o seg : p \in PagePrefixes, seg \in ShortSegments }
Pages(e) ==
  IF e = "page" THEN RichPages
  ELSE IF e = "status" THEN BasePages
  ELSE { GoodPage }

RichHrefs == SeqsUpTo(HrefAlphabet, MaxHrefLen)
Hrefs(e) ==
  IF e = "href" THEN RichHrefs
  ELSE IF e = "location" THEN { <<"x", "?url=", "x">> }
  ELSE IF e \in {"cookie", "status", "latency"} THEN { <<>>, <<"x", "?url=", "x">> }
  ELSE IF e = "follow" THEN { <<"x", "?url=", "x">> }
  ELSE { <<>> }

RichLocations == SeqsUpTo(LocAlphabet, MaxLocLen)
Locations(e) ==
  IF e = "location" THEN RichLocations
  ELSE IF e = "href" THEN { <<>>, <<"/", "x">> }
  ELSE { <<>> }

\* the Set-Cookie lines a response can carry, and what headers.get makes of
\* up to MaxSetCookies of them: the lines joined with ", "
CookieLines ==
  { <<"a=1">>, <<"b=2", ";Exp", ",", "date">>, <<"c-d=3", ";Path">> }
RECURSIVE JoinLines(_)
JoinLines(ls) ==
  IF ls = <<>> THEN <<>>
  ELSE IF Len(ls) = 1 THEN Head(ls)
  ELSE Head(ls) \o <<",", "sp">> \o JoinLines(Tail(ls))
SetCookieHeaders ==
  { JoinLines(ls) : ls \in SeqsUpTo(CookieLines, MaxSetCookies) }
  \cup { <<"a=1", ";Path">>, <<"a=1", ",", "b=2">>, <<";Path">> }

SetCookies(e) == IF e = "cookie" THEN SetCookieHeaders ELSE { <<>> }

\* texts handed to the text functions: summaries built from labelled
\* lines, blank lines and spaces; blocks whose route section is built from
\* the separator artifact, spaces, text and line ends; target segments
FieldChunks ==
  { <<"T", "x", "nl">>, <<"T", "z">>, <<"D", "x", "nl">>, <<"N", "x", "cr", "nl">>,
    <<"nl">>, <<"sp">> }
RouteChunks ==
  { <<"bar", "sp", "fsp">>, <<"bar">>, <<"sp">>, <<"fsp">>, <<"x">>, <<"nl">> }
FieldTexts == { Concat(cs) : cs \in SeqsUpTo(FieldChunks, MaxFieldChunks) }
RouteTexts ==
  { <<"T", "x", "nl", "nl">> \o Concat(cs) : cs \in SeqsUpTo(RouteChunks, MaxRouteChunks) }
BlankLedSegments ==
  { <<"sp", "nl">> \o Concat(bs) : bs \in SeqsUpTo(WellFormedBlocks, MaxBlocks) }
Texts == FieldTexts \cup RouteTexts \cup Segments \cup BlankLedSegments

\* event.path / event.rawPath: Null when the property is absent
RichEventPaths == SeqsUpTo(PathAlphabet, MaxEventPathLen) \cup {Null}
EventPaths(e) == IF e = "event" THEN RichEventPaths ELSE {Null}
Events(e) == [path : EventPaths(e), rawPath : EventPaths(e)]

\* a response of the transport: status class (response.ok), the Set-Cookie
\* and Location headers, and the body as the redirect assignment it carries
\* (href) and its markup (html)
Response(ok, setCookie, loc, href, html) ==
  [ok |-> ok, setCookie |-> setCookie, location |-> loc, href |-> href, html |-> html]

\* response.ok of the first and second response, which the code never reads
Oks(e) == IF e = "status" THEN BOOLEAN ELSE {TRUE}

\* the redirect assignment of the third body (the gate page served again)
Hrefs3(e) == IF e = "status" THEN { <<>>, <<"x", "?url=", "x">> } ELSE { <<>> }

\* the Location of a 3xx answer of the upstream to a call (Null: no 3xx)
Redirects3xx(e) ==
  IF e = "follow"
  THEN { Null, JORUDAN_BASE_URL \o <<"/", "x">>, <<"https", "://", "evil", "/", "x">> }
  ELSE { Null }

\* what the transport does with a 3xx answer to a request: with redirect
\* 'follow' it sends a request to the Location on its own, with 'manual' it
\* hands the 3xx response back
FollowedBy(request, loc) ==
  IF request.redirect = "follow" /\ loc # Null THEN <<loc>> ELSE <<>>

\* how long the upstream takes to answer a call, in milliseconds
Latencies(e) == IF e = "latency" THEN {0, 1000, 2000} ELSE {0}

\* how a call can end without a response: its own timer fires, or the
\* connection fails
Aborts == {"TimeoutError", "TypeError: fetch failed"}

\* the whole budget counted from the start of the invocation
AbortSignalTimeout_shared(t, ms) == ms

\* AbortSignal.timeout(ms) created at time t: the time at which it aborts
AbortSignalTimeout(t, ms) == t + ms

\* ---------------------------------------------------------------- the state
VARIABLES
  env,           \* the input family of this invocation
  event,         \* the Lambda event
  pc,            \* "start", "call1", "call2", "call3", "done"
  requests,      \* the requests passed to fetch, in order
  responses,     \* the responses fetch resolved with, in order
  now,           \* milliseconds since the invocation started
  issuedAt,      \* the time at which each request was passed to fetch
  followed,      \* the URLs the transport requested on its own, following a 3xx
  deadline,      \* when the pending call's AbortSignal fires
  cookies,       \* fetchTransitPage: cookies
  redirectPath,  \* fetchTransitPage: redirectPath (Null if no match)
  redirectUrl,   \* fetchTransitPage: redirectUrl
  location,      \* response2.headers.get('location')
  body,          \* handler: body, the page fetchTransitPage returned (Null before)
  extracted,     \* the candidate blocks handed to getSummary/getRoute
  logged,        \* errorMessage written by console.error ("none" if nothing was)
  outcome,       \* "pending", "returned", "rejected"
  response,      \* the value handler resolved with (NoResponse before)
  fn,            \* the text function applied ("none" before)
  arg,           \* its argument
  ret,           \* its return value
  frames,        \* interleaved invocations: the locals of each running handler
  cookieCells,   \* the storage of the variable cookies of fetchTransitPage
  state,         \* useTransit: the hook's state
  abortControllerRef,   \* useTransit: abortControllerRef.current (0 for null)
  calls          \* useTransit: the calls of fetchTransit, in the order started

vars == <<env, event, pc, requests, responses, now, issuedAt, followed, deadline, cookies,
          redirectPath, redirectUrl, location, body, extracted, logged, outcome,
          response, fn, arg, ret, frames, cookieCells, state, abortControllerRef, calls>>

\* the variables of the text functions, which the handler's steps leave alone
textVars == <<fn, arg, ret>>
\* the variables of an invocation, which a text function leaves alone
invocationVars ==
  <<env, event, pc, requests, responses, now, issuedAt, followed, deadline, cookies,
    redirectPath, redirectUrl, location, body, extracted, logged, outcome, response>>

\* the variables of the interleaved invocations and of the frontend hook
concVars == <<frames, cookieCells>>
hookVars == <<state, abortControllerRef, calls>>

\* useState's initial value: routes and lastUpdated name the call they came
\* from (0: none), error the call and its message
NoError == [call |-> 0, message |-> "null"]
InitialState == [routes |-> 0, loading |-> FALSE, error |-> NoError, lastUpdated |-> 0]

\* no interleaved invocations; the hook before its first call
NoFrames == frames = <<>> /\ cookieCells = <<>>
Unused == state = InitialState /\ abortControllerRef = 0 /\ calls = <<>>

\* the state of an invocation before handler runs
Fresh ==
  /\ pc = "start"
  /\ requests = <<>>
  /\ responses = <<>>
  /\ now = 0
  /\ issuedAt = <<>>
  /\ followed = <<>>
  /\ deadline = 0
  /\ cookies = <<>>
  /\ redirectPath = Null
  /\ redirectUrl = Null
  /\ location = Null
  /\ body = Null
  /\ extracted = <<>>
  /\ logged = "none"
  /\ outcome = "pending"
  /\ response = NoResponse

Init ==
  /\ env \in Families
  /\ event \in Events(env)
  /\ Fresh
  /\ fn = "none"
  /\ arg = <<>>
  /\ ret = <<>>
  /\ NoFrames
  /\ Unused

\* ------------------------------------------------------------------ actions
\* a handler whose promise is never settled
Settle_never(r) ==
  /\ pc' = "pending"
  /\ outcome' = "pending"
  /\ logged' = r.logged
  /\ response' = NoResponse

\* the handler resolves (or rejects) with r
Settle(r) ==
  /\ pc' = "done"
  /\ outcome' = r.outcome
  /\ logged' = r.logged
  /\ response' = r.response

\* fetch(url, {signal: AbortSignal.timeout(...), headers, redirect})
Fetch(url, cookie, redirect) ==
  /\ requests' = Append(requests, Request(url, cookie, redirect))
  /\ issuedAt' = Append(issuedAt, now')
  /\ deadline' = AbortSignalTimeout(now', REQUEST_TIMEOUT_MS)

\* no call of fetch in this step
NoFetch == UNCHANGED <<requests, issuedAt, deadline>>

\* the pending call resolves with r after d milliseconds; loc is the Location
\* of a 3xx answer the upstream gave to it first
Resolve(r, d, loc) ==
  /\ now + d < deadline
  /\ now' = now + d
  /\ responses' = Append(responses, r)
  /\ followed' = followed \o FollowedBy(requests[Len(requests)], loc)

\* fetchTransitPage returned html: the rest of the try block runs to its end
Deliver(html) ==
  LET p == Pipeline(html)
  IN  /\ body' = html
      /\ extracted' = p.extracted
      /\ Settle(IF p.thrown # "none" THEN Caught(p.thrown) ELSE Returned(p.transfers))

\* GET /status: answered without touching the network
HealthCheck ==
  /\ pc = "start"
  /\ IsStatusRoute(event)
  /\ Settle([outcome |-> "returned", logged |-> "none",
             response |-> createJsonResponse(200, [status |-> "ok", timestamp |-> "now"])])
  /\ UNCHANGED <<env, event, requests, responses, now, issuedAt, deadline, cookies,
                 redirectPath, redirectUrl, location, body, extracted>>
  /\ UNCHANGED followed
  /\ UNCHANGED <<textVars, concVars, hookVars>>

\* step 1 of fetchTransitPage: the initial request is issued
StartFetch ==
  /\ pc = "start"
  /\ ~IsStatusRoute(event)
  /\ now' = now
  /\ Fetch(JORUDAN_URL, <<>>, "manual")
  /\ pc' = "call1"
  /\ UNCHANGED <<env, event, responses, cookies, redirectPath, redirectUrl, location,
                 body, extracted, logged, outcome, response>>
  /\ UNCHANGED followed
  /\ UNCHANGED <<textVars, concVars, hookVars>>

\* a failed call that is issued again
CallAborted_retry ==
  /\ pc \in {"call1", "call2", "call3"}
  /\ Len(requests) < 5
  /\ now' = now
  /\ Fetch(requests[Len(requests)].url, requests[Len(requests)].cookie,
           requests[Len(requests)].redirect)
  /\ UNCHANGED <<env, event, pc, responses, cookies, redirectPath, redirectUrl,
                 location, body, extracted, logged, outcome, response>>
  /\ UNCHANGED followed
  /\ UNCHANGED <<textVars, concVars, hookVars>>

\* the pending call is aborted by its timeout or fails in the network
CallAborted ==
  /\ pc \in {"call1", "call2", "call3"}
  /\ \E a \in Aborts :
       /\ IF a = "TimeoutError"
          THEN now' = deadline
          ELSE \E d \in Latencies(env) : now + d < deadline /\ now' = now + d
       /\ Settle(Caught(a))
  /\ UNCHANGED <<env, event, requests, responses, issuedAt, deadline, cookies,
                 redirectPath, redirectUrl, location, body, extracted>>
  /\ UNCHANGED followed
  /\ UNCHANGED <<textVars, concVars, hookVars>>

\* the first response arrives: cookies, redirect detection, step 2 request
Receive1 ==
  /\ pc = "call1"
  /\ \E ok \in Oks(env), sc \in SetCookies(env), h \in Hrefs(env), page \in Pages(env),
        d \in Latencies(env), loc3xx \in Redirects3xx(env) :
       LET r == Response(ok, sc, <<>>, h, page)
           c == extractCookies(r.setCookie)
           rp == extractRedirectUrl([href |-> r.href, html |-> r.html])
           ru == safeJoinUrl(JORUDAN_BASE_URL, rp)
       IN  /\ Resolve(r, d, loc3xx)
           /\ cookies' = c
           /\ redirectPath' = rp
           /\ IF rp = Null
              THEN /\ IF IncludesMarker(r.html)
                      THEN Deliver(r.html)
                      ELSE /\ Settle(Caught("Unexpected response: no redirect and no transit data"))
                           /\ UNCHANGED <<body, extracted>>
                   /\ NoFetch
                   /\ UNCHANGED redirectUrl
              ELSE IF ru = Rejected
              THEN /\ Settle(Caught("Invalid redirect path detected"))
                   /\ NoFetch
                   /\ UNCHANGED <<redirectUrl, body, extracted>>
              ELSE /\ redirectUrl' = ru
                   /\ Fetch(ru, c, "manual")
                   /\ pc' = "call2"
                   /\ UNCHANGED <<body, extracted, logged, outcome, response>>
  /\ UNCHANGED <<env, event, location>>
  /\ UNCHANGED <<textVars, concVars, hookVars>>

\* the second response arrives: cookies, final URL resolution, step 4 request
Receive2 ==
  /\ pc = "call2"
  /\ \E ok \in Oks(env), sc \in SetCookies(env), loc \in Locations(env),
        d \in Latencies(env), loc3xx \in Redirects3xx(env) :
       LET r == Response(ok, sc, loc, <<>>, <<>>)
           c == MergeCookies(cookies, extractCookies(r.setCookie))
           res == ResolveFinalUrl(r.location, redirectUrl)
       IN  /\ Resolve(r, d, loc3xx)
           /\ cookies' = c
           /\ location' = r.location
           /\ IF res.thrown # "none"
              THEN /\ Settle(Caught(res.thrown))
                   /\ NoFetch
              ELSE /\ Fetch(res.url, c, "follow")
                   /\ pc' = "call3"
                   /\ UNCHANGED <<logged, outcome, response>>
  /\ UNCHANGED <<env, event, redirectPath, redirectUrl, body, extracted>>
  /\ UNCHANGED <<textVars, concVars, hookVars>>

\* a third step that does not look at the status
Receive3_noStatusCheck ==
  /\ pc = "call3"
  /\ \E ok \in BOOLEAN, h \in Hrefs3(env), page \in Pages(env), d \in Latencies(env),
        loc3xx \in Redirects3xx(env) :
       LET r == Response(ok, <<>>, <<>>, h, page)
       IN  /\ Resolve(r, d, loc3xx)
           /\ IF ~IncludesMarker(r.html)
              THEN /\ Settle(Caught("Failed to get transit data after cookie flow"))
                   /\ UNCHANGED <<body, extracted>>
              ELSE Deliver(r.html)
  /\ NoFetch
  /\ UNCHANGED <<env, event, cookies, redirectPath, redirectUrl, location>>
  /\ UNCHANGED <<textVars, concVars, hookVars>>

\* the third response arrives: status check, marker check, extraction
Receive3 ==
  /\ pc = "call3"
  /\ \E ok \in BOOLEAN, h \in Hrefs3(env), page \in Pages(env), d \in Latencies(env),
        loc3xx \in Redirects3xx(env) :
       LET r == Response(ok, <<>>, <<>>, h, page)
       IN  /\ Resolve(r, d, loc3xx)
           /\ IF ~r.ok
              THEN /\ Settle(Caught("HTTP error! status"))
                   /\ UNCHANGED <<body, extracted>>
              ELSE IF ~IncludesMarker(r.html)
              THEN /\ Settle(Caught("Failed to get transit data after cookie flow"))
                   /\ UNCHANGED <<body, extracted>>
              ELSE Deliver(r.html)
  /\ NoFetch
  /\ UNCHANGED <<env, event, cookies, redirectPath, redirectUrl, location>>
  /\ UNCHANGED <<textVars, concVars, hookVars>>

Next ==
  \/ HealthCheck
  \/ StartFetch
  \/ CallAborted
  \/ Receive1
  \/ Receive2
  \/ Receive3

Spec == Init /\ [][Next]_vars

\* the runtime keeps running the handler, and every network call either
\* delivers a response or is aborted by its timeout (each await of lines
\* 126-200 settles); the families that only vary the text of the page or of
\* the Location header within one step are left out
LiveFamilies == Families \ {"page", "location"}
LiveInit == Init /\ env \in LiveFamilies
LiveSpec == LiveInit /\ [][Next]_vars /\ WF_vars(Next)

\* ------------------------------------------------------ the text functions
\* splitRoutes, getSummary and getRoute applied to a text of their own
TextInit ==
  /\ env = "text"
  /\ event = [path |-> Null, rawPath |-> Null]
  /\ Fresh
  /\ fn = "none"
  /\ arg \in Texts
  /\ ret = <<>>
  /\ NoFrames
  /\ Unused

CallSplitRoutes ==
  /\ fn = "none"
  /\ fn' = "splitRoutes"
  /\ ret' = splitRoutes(arg)
  /\ UNCHANGED arg
  /\ UNCHANGED <<invocationVars, concVars, hookVars>>

CallGetSummary ==
  /\ fn = "none"
  /\ fn' = "getSummary"
  /\ ret' = getSummary(arg)
  /\ UNCHANGED arg
  /\ UNCHANGED <<invocationVars, concVars, hookVars>>

CallGetRoute ==
  /\ fn = "none"
  /\ fn' = "getRoute"
  /\ ret' = getRoute(arg)
  /\ UNCHANGED arg
  /\ UNCHANGED <<invocationVars, concVars, hookVars>>

TextNext ==
  \/ CallSplitRoutes
  \/ CallGetSummary
  \/ CallGetRoute

TextSpec == TextInit /\ [][TextNext]_vars

\* ------------------------------------------------- HTML variant (renderer)
\* Text is a sequence of characters; "hm" stands for a clock time \d+:\d+,
\* "3" for a digit, "bar" for the route-line marker, "dep", "arr", "to", "min" and "times" for
\* the characters 発 着 ～ 分 回, and a token written like a tag ("<div class=station>") for a piece of fixed markup of a template.
EscapedChars == {"&", "<", ">", "\"", "'"}

escapeMap(char) ==
  CASE char = "&" -> <<"&", "a", "m", "p", ";">>
    [] char = "<" -> <<"&", "l", "t", ";">>
    [] char = ">" -> <<"&", "g", "t", ";">>
    [] char = "\"" -> <<"&", "q", "u", "o", "t", ";">>
    [] char = "'" -> <<"&", "#", "3", "9", ";">>

\* a replace without the g flag: only the first special character is replaced
RECURSIVE escapeHtml_first(_)
escapeHtml_first(text) ==
  IF text = <<>> THEN <<>>
  ELSE IF Head(text) \in EscapedChars THEN escapeMap(Head(text)) \o Tail(text)
  ELSE <<Head(text)>> \o escapeHtml_first(Tail(text))

\* String(text).replace(/[&<>"']/g, (char) => escapeMap[char])
escapeHtml(text) ==
  Concat([i \in 1..Len(text) |->
            IF text[i] \in EscapedChars THEN escapeMap(text[i]) ELSE <<text[i]>>])

\* the first match of /(\d+:\d+)発.*?(\d+:\d+)着/: <<departure, arrival>>
DepartArriveMatch(summary) ==
  LET arrivals(i) ==
        {j \in (i + 2)..(Len(summary) - 1) :
           /\ summary[j] = "hm" /\ summary[j + 1] = "arr"
           /\ \A k \in (i + 2)..(j - 1) : summary[k] \notin LineTerminator}
      starts == {i \in 1..(Len(summary) - 1) :
                   summary[i] = "hm" /\ summary[i + 1] = "dep" /\ arrivals(i) # {}}
  IN  IF starts = {} THEN Null
      ELSE LET i == CHOOSE k \in starts : \A m \in starts : k <= m
               j == CHOOSE k \in arrivals(i) : \A m \in arrivals(i) : k <= m
           IN  <<<<summary[i]>>, <<summary[j]>>>>

\* the first match of /(\d+:\d+)～(\d+:\d+)/
RangeMatch(summary) ==
  LET starts == {i \in 1..(Len(summary) - 2) :
                   summary[i] = "hm" /\ summary[i + 1] = "to" /\ summary[i + 2] = "hm"}
  IN  IF starts = {} THEN Null
      ELSE LET i == CHOOSE k \in starts : \A m \in starts : k <= m
           IN  <<<<summary[i]>>, <<summary[i + 2]>>>>

\* the capture of the first match of /\(([^)]*分)\)/, '' if none
DurationMatch(summary) ==
  LET close(i) == {j \in (i + 1)..Len(summary) : summary[j] = ")"}
      firstClose(i) == CHOOSE j \in close(i) : \A m \in close(i) : j <= m
      starts == {i \in 1..Len(summary) :
                   /\ summary[i] = "(" /\ close(i) # {}
                   /\ firstClose(i) - 1 > i
                   /\ summary[firstClose(i) - 1] = "min"}
  IN  IF starts = {} THEN <<>>
      ELSE LET i == CHOOSE k \in starts : \A m \in starts : k <= m
           IN  SubSeq(summary, i + 1, firstClose(i) - 1)

\* the capture of the first match of /\((\d+回)\)/, '' if none
TransfersMatch(summary) ==
  LET ends(i) == {j \in (i + 2)..(Len(summary) - 1) :
                    /\ summary[j] = "times" /\ summary[j + 1] = ")"
                    /\ \A k \in (i + 1)..(j - 1) : summary[k] = "3"}
      starts == {i \in 1..Len(summary) : summary[i] = "(" /\ ends(i) # {}}
  IN  IF starts = {} THEN <<>>
      ELSE LET i == CHOOSE k \in starts : \A m \in starts : k <= m
               j == CHOOSE k \in ends(i) : TRUE
           IN  SubSeq(summary, i + 1, j)

parseSummary(summary) ==
  LET first == DepartArriveMatch(summary)
      timeMatch == IF first # Null THEN first ELSE RangeMatch(summary)
  IN  [departure |-> IF timeMatch = Null THEN <<>> ELSE timeMatch[1],
       arrival |-> IF timeMatch = Null THEN <<>> ELSE timeMatch[2],
       duration |-> DurationMatch(summary),
       transfers |-> TransfersMatch(summary)]

\* routeText.split('\n').filter((line) => line.trim())
RouteLines(routeText) ==
  SelectSeq(SplitOnFrom(routeText, 1, <<>>, {"nl"}), LAMBDA line : Trim(line) # <<>>)

renderRoute(routeText) ==
  LET lines == RouteLines(routeText)
      totalLines == Len(lines)
      shown(index) ==
        LET trimmed == Trim(lines[index + 1])
            isTerminal == index = 0 \/ index = totalLines - 1
        IN  IF StartsWith(trimmed, <<"bar">>)
            THEN <<"<div class=line-name>">> \o escapeHtml(Trim(Tail(trimmed)))
                   \o <<"</div>">>
            ELSE <<IF isTerminal THEN "<div class=station station-terminal>"
                                 ELSE "<div class=station>">>
                   \o escapeHtml(trimmed) \o <<"</div>">>
  IN  Concat([k \in 1..totalLines |-> shown(k - 1)])

renderTransitCard(transfer) ==
  LET parsed == parseSummary(transfer[1])
  IN  <<"<article class=transit-card>", "<span>">> \o escapeHtml(parsed.departure)
        \o <<"</span>", "<span class=time-arrow>", "<span>">> \o escapeHtml(parsed.arrival)
        \o <<"</span>", "<div class=meta>", "<span>">> \o escapeHtml(parsed.duration)
        \o <<"</span>", "<span>">> \o escapeHtml(parsed.transfers)
        \o <<"</span>", "<div class=route-timeline>">> \o renderRoute(transfer[2])
        \o <<"</article>">>

renderErrorPage(message) ==
  <<"<!DOCTYPE html>", "<p class=error-detail>">> \o escapeHtml(message) \o <<"</p>", "</html>">>

\* bounds of the renderer's inputs
MaxTextLen == 3
MaxRouteLen == 5
MaxSummaryChunks == 3

\* texts to escape, route texts, summaries and the route of a card
EscapeTexts == SeqsUpTo(EscapedChars \cup {"x", ";"}, MaxTextLen)
TimelineTexts == SeqsUpTo({"bar", "x", "nl", "sp", "<"}, MaxRouteLen)
SummaryChunks ==
  { <<"hm", "dep">>, <<"hm", "arr">>, <<"hm", "to", "hm">>, <<"(", "<", "min", ")">>,
    <<"(", "3", "times", ")">>, <<"(">>, <<"nl">> }
SummaryTexts == { Concat(cs) : cs \in SeqsUpTo(SummaryChunks, MaxSummaryChunks) }
CardRoutes == { <<"x", "nl", "bar", "&", "nl", "x">>, <<>> }
HtmlTexts == EscapeTexts \cup TimelineTexts \cup SummaryTexts

HtmlInit ==
  /\ env = "html"
  /\ event = [path |-> Null, rawPath |-> Null]
  /\ Fresh
  /\ fn = "none"
  /\ arg \in HtmlTexts
  /\ ret = <<>>
  /\ NoFrames
  /\ Unused

CallEscapeHtml ==
  /\ fn = "none"
  /\ fn' = "escapeHtml"
  /\ ret' = escapeHtml(arg)
  /\ UNCHANGED arg
  /\ UNCHANGED <<invocationVars, concVars, hookVars>>

CallRenderRoute ==
  /\ fn = "none"
  /\ fn' = "renderRoute"
  /\ ret' = renderRoute(arg)
  /\ UNCHANGED arg
  /\ UNCHANGED <<invocationVars, concVars, hookVars>>

\* the card of the transfer [arg, route]
CallRenderTransitCard ==
  /\ fn = "none"
  /\ fn' = "renderTransitCard"
  /\ \E route \in CardRoutes : ret' = renderTransitCard(<<arg, route>>)
  /\ UNCHANGED arg
  /\ UNCHANGED <<invocationVars, concVars, hookVars>>

CallRenderErrorPage ==
  /\ fn = "none"
  /\ fn' = "renderErrorPage"
  /\ ret' = renderErrorPage(arg)
  /\ UNCHANGED arg
  /\ UNCHANGED <<invocationVars, concVars, hookVars>>

HtmlNext ==
  \/ CallEscapeHtml
  \/ CallRenderRoute
  \/ CallRenderTransitCard
  \/ CallRenderErrorPage

HtmlSpec == HtmlInit /\ [][HtmlNext]_vars

\* ------------------------------------------------ interleaved invocations
\* The runtime may run several invocations of handler at once; each await of
\* fetchTransitPage is a point where another invocation can run.
MaxInvocations == 2
Invocations == 1..MaxInvocations
ConcEvents ==
  { [path |-> Null, rawPath |-> Null], [path |-> <<"/status">>, rawPath |-> Null] }

\* the locals of an invocation that has not run yet
NewFrame(ev) ==
  [event |-> ev, pc |-> "start", requests |-> <<>>, responses |-> <<>>,
   redirectUrl |-> Null, response |-> NoResponse]

\* a variable cookies declared at module level: one cell for all invocations
CellOf_module(i) == 1

\* let cookies, local to fetchTransitPage: one cell for each invocation
CellOf(i) == i

\* handler returns the result r
Ended(frame, r) == [frame EXCEPT !.pc = "done", !.response = r.response]
\* fetch is called and awaited
Asked(frame, url, cookie, redirect, at) ==
  [frame EXCEPT !.pc = at, !.requests = Append(@, Request(url, cookie, redirect))]
\* the rest of the try block once fetchTransitPage returned html
Outcome(html) ==
  LET p == Pipeline(html)
  IN  IF p.thrown # "none" THEN Caught(p.thrown) ELSE Returned(p.transfers)

\* the locals after the first response r, with cookies holding c
After1(frame, c, r) ==
  LET f == [frame EXCEPT !.responses = Append(@, r)]
      rp == extractRedirectUrl([href |-> r.href, html |-> r.html])
      ru == safeJoinUrl(JORUDAN_BASE_URL, rp)
  IN  IF rp = Null
      THEN Ended(f, IF IncludesMarker(r.html) THEN Outcome(r.html)
                    ELSE Caught("Unexpected response: no redirect and no transit data"))
      ELSE IF ru = Rejected THEN Ended(f, Caught("Invalid redirect path detected"))
      ELSE Asked([f EXCEPT !.redirectUrl = ru], ru, c, "manual", "call2")

\* the locals after the second response r, with cookies holding c
After2(frame, c, r) ==
  LET f == [frame EXCEPT !.responses = Append(@, r)]
      res == ResolveFinalUrl(r.location, frame.redirectUrl)
  IN  IF res.thrown # "none" THEN Ended(f, Caught(res.thrown))
      ELSE Asked(f, res.url, c, "follow", "call3")

\* the locals after the third response r
After3(frame, r) ==
  LET f == [frame EXCEPT !.responses = Append(@, r)]
  IN  IF ~r.ok THEN Ended(f, Caught("HTTP error! status"))
      ELSE IF ~IncludesMarker(r.html)
      THEN Ended(f, Caught("Failed to get transit data after cookie flow"))
      ELSE Ended(f, Outcome(r.html))

ConcInit ==
  /\ env = "interleaved"
  /\ event = [path |-> Null, rawPath |-> Null]
  /\ Fresh
  /\ fn = "none"
  /\ arg = <<>>
  /\ ret = <<>>
  /\ frames \in [Invocations -> {NewFrame(ev) : ev \in ConcEvents}]
  /\ cookieCells = [c \in Invocations |-> <<>>]
  /\ Unused

\* invocation i runs up to its first await
Begin(i) ==
  /\ frames[i].pc = "start"
  /\ frames' = [frames EXCEPT ![i] =
       IF IsStatusRoute(@.event)
       THEN Ended(@, [response |-> createJsonResponse(200, [status |-> "ok",
                                                            timestamp |-> "now"])])
       ELSE Asked(@, JORUDAN_URL, <<>>, "manual", "call1")]
  /\ UNCHANGED cookieCells

\* the first response of invocation i arrives
Arrive1(i) ==
  /\ frames[i].pc = "call1"
  /\ \E sc \in {<<>>, <<"a=1">>}, h \in {<<>>, <<"x", "?url=", "x">>} :
       LET r == Response(TRUE, sc, <<>>, h, GoodPage)
           c == extractCookies(r.setCookie)
       IN  /\ cookieCells' = [cookieCells EXCEPT ![CellOf(i)] = c]
           /\ frames' = [frames EXCEPT ![i] = After1(@, c, r)]

\* the second response of invocation i arrives
Arrive2(i) ==
  /\ frames[i].pc = "call2"
  /\ \E sc \in {<<>>, <<"b=2">>}, loc \in {<<>>, <<"/", "x">>} :
       LET r == Response(TRUE, sc, loc, <<>>, <<>>)
           c == MergeCookies(cookieCells[CellOf(i)], extractCookies(r.setCookie))
       IN  /\ cookieCells' = [cookieCells EXCEPT ![CellOf(i)] = c]
           /\ frames' = [frames EXCEPT ![i] = After2(@, c, r)]

\* the third response of invocation i arrives
Arrive3(i) ==
  /\ frames[i].pc = "call3"
  /\ \E ok \in BOOLEAN :
       frames' = [frames EXCEPT ![i] = After3(@, Response(ok, <<>>, <<>>, <<>>, GoodPage))]
  /\ UNCHANGED cookieCells

\* the pending call of invocation i is aborted by its timeout
Fail(i) ==
  /\ frames[i].pc \in {"call1", "call2", "call3"}
  /\ frames' = [frames EXCEPT ![i] = Ended(@, Caught("TimeoutError"))]
  /\ UNCHANGED cookieCells

ConcNext ==
  /\ \E i \in Invocations :
       \/ Begin(i)
       \/ Arrive1(i)
       \/ Arrive2(i)
       \/ Arrive3(i)
       \/ Fail(i)
  /\ UNCHANGED <<invocationVars, textVars, hookVars>>

ConcSpec == ConcInit /\ [][ConcNext]_vars

\* ----------------------------------------------------- frontend hook
\* useTransit: every call of fetchTransit aborts the controller of the
\* previous one and awaits fetch and then response.json().
MaxCalls == 3

\* how an awaited fetch settles: an aborted one rejects with AbortError
FetchOutcomes(call) ==
  IF call.aborted THEN {"AbortError"} ELSE {"TypeError", "HTTP error", "ok"}

\* how an awaited response.json() settles: abort() errors the body that is
\* being read, so the pending json() of an aborted call rejects with AbortError
JsonOutcomes(call) ==
  IF call.aborted THEN {"AbortError"}
  ELSE {"SyntaxError", "Invalid API response format", "routes"}

\* a fetchTransit that leaves the previous controller alone
AbortPrevious_never(cs, ref) == cs

\* if (abortControllerRef.current) abortControllerRef.current.abort()
AbortPrevious(cs, ref) == IF ref # 0 THEN [cs EXCEPT ![ref].aborted = TRUE] ELSE cs

\* the catch block: an AbortError returns, anything else is shown
Thrown(id, message) ==
  IF message = "AbortError" THEN state
  ELSE [state EXCEPT !.loading = FALSE, !.error = [call |-> id, message |-> message]]

HookInit ==
  /\ env = "hook"
  /\ event = [path |-> Null, rawPath |-> Null]
  /\ Fresh
  /\ fn = "none"
  /\ arg = <<>>
  /\ ret = <<>>
  /\ NoFrames
  /\ Unused

\* fetchTransit up to its await of fetch
FetchTransit ==
  /\ Len(calls) < MaxCalls
  /\ calls' = Append(AbortPrevious(calls, abortControllerRef),
                      [pc |-> "fetch", aborted |-> FALSE, result |-> "pending"])
  /\ abortControllerRef' = Len(calls) + 1
  /\ state' = [state EXCEPT !.loading = TRUE, !.error = NoError]

\* the fetch of call id settles: up to the await of response.json()
FetchSettles(id) ==
  /\ calls[id].pc = "fetch"
  /\ \E o \in FetchOutcomes(calls[id]) :
       IF o = "ok"
       THEN /\ calls' = [calls EXCEPT ![id].pc = "json"]
            /\ UNCHANGED state
       ELSE /\ calls' = [calls EXCEPT ![id].pc = "done", ![id].result = o]
            /\ state' = Thrown(id, o)
  /\ UNCHANGED abortControllerRef

\* response.json() of call id settles: to the end of fetchTransit
JsonSettles(id) ==
  /\ calls[id].pc = "json"
  /\ \E o \in JsonOutcomes(calls[id]) :
       /\ calls' = [calls EXCEPT ![id].pc = "done", ![id].result = o]
       /\ IF o = "routes"
          THEN state' = [routes |-> id, loading |-> FALSE, error |-> NoError,
                         lastUpdated |-> id]
          ELSE state' = Thrown(id, o)
  /\ UNCHANGED abortControllerRef

\* the cleanup of the effect
Cleanup ==
  /\ abortControllerRef # 0
  /\ ~calls[abortControllerRef].aborted
  /\ calls' = [calls EXCEPT ![abortControllerRef].aborted = TRUE]
  /\ UNCHANGED <<state, abortControllerRef>>

HookNext ==
  /\ \/ FetchTransit
     \/ \E id \in DOMAIN calls : FetchSettles(id)
     \/ \E id \in DOMAIN calls : JsonSettles(id)
     \/ Cleanup
  /\ UNCHANGED <<invocationVars, textVars, concVars>>

HookSpec == HookInit /\ [][HookNext]_vars

\* ------------------------------------------------------------------ claims
TransitRoute == ~IsStatusRoute(event)
Done == pc = "done"
Answered(code) == Done /\ outcome = "returned" /\ response.statusCode = code
Success == TransitRoute /\ Answered(200)
FailureResponse ==
  [statusCode |-> 500, headers |-> JSON_HEADERS,
   body |-> [error |-> "Failed to fetch transit information"]]

\* number of segments the horizontal-rule tag cuts the page into
SegmentCount(html) == 1 + Cardinality({i \in 1..Len(html) : html[i] \in {"HR", "HRU"}})
\* the third segment of a page with at least three
TargetSegment(html) == SplitHr(html)[3]

\* the fetch failed: fetchTransitPage returned no page
FetchFailed == TransitRoute /\ Done /\ body = Null
\* a step after the fetch failed: too few segments, no candidate, none kept
ExtractionFailed ==
  /\ body # Null
  /\ \/ SegmentCount(body) < 3
     \/ splitRoutes(TargetSegment(body)) = <<>>
     \/ \A i \in 1..Len(extracted) :
          \/ getSummary(extracted[i]) = EmptySummary
          \/ Trim(getRoute(extracted[i])) = <<>>

\* C1: every invocation ends with a returned response, never a rejection; the
\* status is 200 or 500, and it is 500 whenever the fetch, the segment
\* selection, the split, the extraction or the filter failed.
C1_AlwaysAnswers ==
  /\ outcome # "rejected"
  /\ Done => /\ outcome = "returned"
             /\ response.statusCode \in {200, 500}
             /\ (logged # "none" \/ FetchFailed \/ ExtractionFailed)
                  => response.statusCode = 500

C1_Witness == Answered(500) /\ logged = "TimeoutError" /\ Len(requests) = 2

\* C2: every failure response is the same value whatever failed: status 500,
\* the JSON headers and the fixed generic body, which differs from the logged
\* internal message.
C2_UniformFailure ==
  (Done /\ logged # "none")
    => /\ response = FailureResponse
       /\ response.body.error # logged

C2_Witness ==
  Done /\ logged = "Invalid redirect: unexpected domain" /\ response = FailureResponse

\* C3: a redirect assignment whose path starts with // or contains :// ends
\* the invocation with 500 and the initial request is the only one issued.
C3_UnsafeRedirectPath ==
  (redirectPath # Null
   /\ (StartsWith(redirectPath, <<"/", "/">>) \/ HasToken(redirectPath, "://")))
    => /\ Answered(500)
       /\ requests = <<Request(JORUDAN_URL, <<>>, "manual")>>

C3_Witness ==
  /\ redirectPath # Null
  /\ HasToken(redirectPath, "://")
  /\ ~StartsWith(redirectPath, <<"/", "/">>)
  /\ Answered(500)
  /\ Len(requests) = 1

\* C4 (as claimed): an absolute Location header on the second response whose
\* origin is not the trusted origin fails the fetch: 500, and no third request.
C4_OffOriginLocation ==
  (location # Null /\ UrlOrigin(location) \notin {InvalidUrl, TrustedOrigin})
    => /\ Answered(500)
       /\ Len(requests) = 2

\* C5: every URL passed to the transport is the fixed query URL or has the
\* trusted origin.
C5_RequestsOnOrigin ==
  \A i \in 1..Len(requests) :
    \/ requests[i].url = JORUDAN_URL
    \/ UrlOrigin(requests[i].url) = TrustedOrigin

C5_Witness ==
  /\ Len(requests) = 3
  /\ location # Null
  /\ StartsWithHttp(location)
  /\ requests[3].url = location
  /\ requests[2].url # JORUDAN_URL

\* C6: a 200 response of the transit route carries at most 2 transfers.
C6_AtMostTwo == Success => Len(response.body.transfers) <= 2

C6_Witness ==
  /\ Success
  /\ Len(response.body.transfers) = 2
  /\ Len(splitRoutes(TargetSegment(body))) >= 3

\* the runs of 1..MaxBlocks well-formed blocks, each with its concatenation
WellFormedRuns ==
  { [blocks |-> bs, text |-> Concat(bs)] : bs \in SeqsUpTo(WellFormedBlocks, MaxBlocks) \ {<<>>} }
Min(a, b) == IF a < b THEN a ELSE b

\* C7: when the third segment is the concatenation of k >= 1 well-formed
\* blocks, the answer is 200 and the transfers are the summary and route of
\* the first min(k, 2) blocks, in page order.
C7_WellFormedBlocks ==
  (body # Null /\ SegmentCount(body) >= 3) =>
    \A run \in WellFormedRuns :
      TargetSegment(body) = run.text
        => /\ Success
           /\ response.body.transfers =
                [i \in 1..Min(Len(run.blocks), 2) |->
                   <<getSummary(run.blocks[i]), getRoute(run.blocks[i])>>]

C7_Witness ==
  /\ Success
  /\ \E run \in WellFormedRuns :
       /\ Len(run.blocks) = 3
       /\ run.blocks[1] # run.blocks[2]
       /\ TargetSegment(body) = run.text
  /\ Len(response.body.transfers) = 2

\* C8: no transfer of a 200 response has the sentinel summary or a route that
\* is blank after trimming.
C8_NoMalformedTransfer ==
  Success =>
    \A i \in 1..Len(response.body.transfers) :
      /\ response.body.transfers[i][1] # <<"(", ")", "(", ")">>
      /\ Trim(response.body.transfers[i][2]) # <<>>

C8_Witness ==
  /\ Success
  /\ Len(extracted) = 2
  /\ Len(response.body.transfers) = 1
  /\ getSummary(extracted[1]) # EmptySummary
  /\ Trim(getRoute(extracted[1])) = <<>>

\* C9: a 200 response of the transit route carries at least one transfer; with
\* no candidate block, or every candidate dropped, the answer is 500.
C9_NoEmptySuccess ==
  /\ Success => Len(response.body.transfers) >= 1
  /\ (TransitRoute /\ Done /\ body # Null /\ SegmentCount(body) >= 3
      /\ \A i \in 1..Len(extracted) : ~KeepTransfer(<<getSummary(extracted[i]), getRoute(extracted[i])>>))
       => Answered(500)

C9_Witness ==
  /\ Answered(500)
  /\ logged = "No valid transit routes found in response"
  /\ Len(extracted) = 2

\* C10: a fetched page with fewer than 3 segments is answered with 500 and
\* the generic body, and no candidate is extracted.
C10_TooFewSegments ==
  (body # Null /\ SegmentCount(body) < 3)
    => /\ Done
       /\ response = FailureResponse
       /\ extracted = <<>>

C10_Witness ==
  /\ body # Null
  /\ SegmentCount(body) = 2
  /\ HasToken(body, "T")
  /\ response = FailureResponse

\* the request path of the event: event.path || event.rawPath || '/transit'
RequestPath ==
  IF event.path \notin {Null, <<>>} THEN event.path
  ELSE IF event.rawPath \notin {Null, <<>>} THEN event.rawPath
  ELSE <<"/transit">>
\* the body carries the structural marker <hr size="1"
HasMarker(html) == \E i \in 1..Len(html) : html[i] \in {"HR", "hr1"}
InitialRequest == [url |-> JORUDAN_URL, cookie |-> <<>>, redirect |-> "manual"]

\* C11: when the request path is /status, with or without the prefix /api,
\* the invocation ends with 200 and the body {status: "ok", timestamp}, and
\* no request is ever issued and no response consumed.
C11_HealthCheck ==
  (RequestPath \in {<<"/status">>, <<"/api", "/status">>})
    => /\ requests = <<>>
       /\ responses = <<>>
       /\ pc \in {"start", "done"}
       /\ Done => /\ outcome = "returned"
                  /\ response = [statusCode |-> 200, headers |-> JSON_HEADERS,
                                 body |-> [status |-> "ok", timestamp |-> "now"]]

C11_Witness ==
  /\ Done
  /\ event.path = Null
  /\ event.rawPath = <<"/api", "/status">>
  /\ response.statusCode = 200
  /\ requests = <<>>

\* C12 (as claimed): an invocation in which some response of the upstream has
\* a non-success status ends with 500, whatever the body of that response.
C12_NonOkFails ==
  (Done /\ \E i \in 1..Len(responses) : ~responses[i].ok) => Answered(500)

\* C13: when the body of the third response lacks the marker, the fetch
\* fails, the answer is 500 with the generic error body, and the requests
\* stay at three.
C13_MissingMarker ==
  (Len(responses) = 3 /\ ~HasMarker(responses[3].html))
    => /\ Answered(500)
       /\ response = FailureResponse
       /\ body = Null
       /\ Len(requests) = 3

C13_Witness ==
  /\ Len(responses) = 3
  /\ responses[3].ok
  /\ responses[3].href # <<>>
  /\ ~HasMarker(responses[3].html)
  /\ Answered(500)
  /\ Len(requests) = 3

\* what may precede the first block of a segment: nothing, text, a blank line
Preambles == { <<>>, <<"x", "nl">>, <<"sp", "nl">> }
Occurrences(s, t) == Cardinality({i \in 1..Len(s) : s[i] = t})

\* C14: splitRoutes returns the empty list for a text without the label (the
\* empty text included); for a preamble without the label followed by N
\* well-formed blocks it returns exactly those N blocks in order, each
\* starting with the label and holding it once.
C14_SplitRoutes ==
  fn = "splitRoutes" =>
    /\ Occurrences(arg, "T") = 0 => ret = <<>>
    /\ \A pre \in Preambles, run \in WellFormedRuns :
         arg = pre \o run.text
           => /\ Len(ret) = Len(run.blocks)
              /\ \A i \in 1..Len(ret) :
                   /\ ret[i] = run.blocks[i]
                   /\ ret[i][1] = "T"
                   /\ Occurrences(ret[i], "T") = 1

C14_Witness ==
  /\ fn = "splitRoutes"
  /\ \E run \in WellFormedRuns :
       /\ Len(run.blocks) = 3
       /\ arg = <<"x", "nl">> \o run.text
  /\ Len(ret) = 3

\* the first blank-line-delimited section of the trimmed block
FirstSection(block) ==
  LET t == Trim(block)
      breaks == {i \in 1..Len(t) : BlankLineAt(t, i) > 0}
  IN  IF breaks = {} THEN t
      ELSE SubSeq(t, 1, (CHOOSE i \in breaks : \A j \in breaks : i <= j) - 1)
\* the text after the first occurrence of the label up to the next line break
ValueOf(section, label) ==
  LET at == {i \in 1..Len(section) : section[i] = label}
  IN  IF at = {} THEN <<>>
      ELSE LET i == CHOOSE k \in at : \A j \in at : k <= j
               ends == {k \in (i + 1)..(Len(section) + 1) :
                          k = Len(section) + 1 \/ section[k] \in {"nl", "cr"}}
           IN  SubSeq(section, i + 1, (CHOOSE k \in ends : \A j \in ends : k <= j) - 1)

\* C15: getSummary returns time(duration)(transfers), each value being the
\* text after its label up to the line break within the first section of the
\* trimmed block, empty when the label is not there; the result is ()()
\* exactly when the three values are empty.
C15_Summary ==
  fn = "getSummary" =>
    LET section == FirstSection(arg)
        time == ValueOf(section, "T")
        duration == ValueOf(section, "D")
        transfers == ValueOf(section, "N")
    IN  /\ ret = time \o <<"(">> \o duration \o <<")", "(">> \o transfers \o <<")">>
        /\ ret = <<"(", ")", "(", ")">>
             <=> (time = <<>> /\ duration = <<>> /\ transfers = <<>>)

C15_Witness ==
  /\ fn = "getSummary"
  /\ Occurrences(arg, "D") = 1
  /\ ret = <<"x", "(", ")", "(", "x", ")">>

\* C16: the output of getRoute never contains full-width pipe, half-width
\* space, full-width space in a row.
C16_NoArtifact ==
  fn = "getRoute" => ~Includes(ret, <<"bar", "sp", "fsp">>)

C16_Witness ==
  /\ fn = "getRoute"
  /\ Includes(arg, <<"bar", "sp", "fsp", "sp", "fsp", "x">>)
  /\ ret # <<>>
  /\ ret[Len(ret)] = "bar"

\* the redirect path is one safeJoinUrl accepts
SafePath(path) == ~StartsWith(path, <<"/", "/">>) /\ ~Includes(path, <<":", "/", "/">>)
                  /\ ~HasToken(path, "://")

\* C17 (as claimed): once the first response is in, a second request has been
\* issued exactly if the first body carries a redirect assignment.
C17_RedirectIff ==
  Len(responses) >= 1 => (Len(requests) >= 2 <=> responses[1].href # <<>>)

\* C17 (amended): without a redirect assignment in the first body exactly one
\* request is issued and the first body is returned if it has the marker,
\* else the fetch fails; with an assignment the first body is never
\* returned, marker or not, and the second request is issued exactly if the
\* assigned path is accepted by safeJoinUrl, to the trusted origin plus path.
C17_RedirectDecides ==
  Len(responses) >= 1 =>
    LET first == responses[1]
    IN  IF first.href = <<>>
        THEN /\ Len(requests) = 1
             /\ Done
             /\ IF HasMarker(first.html) THEN body = first.html
                ELSE body = Null /\ Answered(500)
        ELSE /\ Len(requests) >= 2 <=> SafePath(first.href)
             /\ Len(requests) >= 2 =>
                  requests[2].url \in {JORUDAN_BASE_URL \o first.href,
                                       JORUDAN_BASE_URL \o <<"/">> \o first.href}
             /\ body # Null => Len(responses) = 3 /\ body = responses[3].html

C17_Witness ==
  /\ Len(requests) >= 2
  /\ responses[1].href # <<>>
  /\ HasMarker(responses[1].html)

\* C18: at most three requests; the first is the initial request, the second
\* goes to the redirect URL, the third follows it; each request after the
\* first is issued in the step that consumes the previous response; a step
\* that fails issues nothing.
C18_LinearOrder ==
  /\ [](/\ Len(requests) <= 3
        /\ Len(responses) <= Len(requests)
        /\ Len(requests) <= Len(responses) + 1
        /\ Len(requests) >= 1 => requests[1] = InitialRequest
        /\ Len(requests) >= 2 => requests[2].url = redirectUrl /\ redirectUrl # Null
        /\ pc = "call1" => Len(requests) = 1
        /\ pc = "call2" => Len(requests) = 2
        /\ pc = "call3" => Len(requests) = 3)
  /\ [][/\ \/ requests' = requests
           \/ /\ Len(requests') = Len(requests) + 1
              /\ SubSeq(requests', 1, Len(requests)) = requests
              /\ Len(responses') = Len(requests)
        /\ (logged' # "none") => requests' = requests]_vars

C18_Witness ==
  /\ Done
  /\ logged = "TypeError: fetch failed"
  /\ Len(requests) = 3
  /\ Len(responses) = 2

\* C19: a call aborted by its timeout ends the invocation with 500, no page
\* and no later request, and the abort comes one timeout period after that
\* call was issued, whatever time the earlier calls took.
C19_OwnTimeout ==
  (Done /\ logged = "TimeoutError")
    => /\ Answered(500)
       /\ body = Null
       /\ Len(requests) = Len(responses) + 1
       /\ now - issuedAt[Len(requests)] = REQUEST_TIMEOUT_MS

C19_Witness ==
  /\ Done
  /\ logged = "TimeoutError"
  /\ Len(requests) = 3
  /\ issuedAt[3] > REQUEST_TIMEOUT_MS
  /\ response.statusCode = 500


\* the name=value pairs a Set-Cookie header sets, in order
CookiesSetBy(h) == SelectSeq(h, LAMBDA t : t \in {"a=1", "b=2", "c-d=3"})
\* the Cookie header that carries these pairs: joined with "; ", none if empty
RECURSIVE CookieHeader(_)
CookieHeader(ps) ==
  IF ps = <<>> THEN <<>>
  ELSE IF Len(ps) = 1 THEN ps
  ELSE <<ps[1], "; ">> \o CookieHeader(Tail(ps))

\* C20 (as claimed): the first request carries no cookie, the second exactly
\* the cookies the first response set, the third those of the first response
\* followed by those of the second; no Cookie header when there is none.
C20_CookieCarry ==
  /\ Len(requests) >= 1 => requests[1].cookie = <<>>
  /\ Len(requests) >= 2 =>
       requests[2].cookie = CookieHeader(CookiesSetBy(responses[1].setCookie))
  /\ Len(requests) >= 3 =>
       requests[3].cookie = CookieHeader(CookiesSetBy(responses[1].setCookie)
                                         \o CookiesSetBy(responses[2].setCookie))

\* the url query parameter of a URL, decoded: the text after "?url=" with
\* the escaped slashes restored; <<>> if there is none
UrlParameter(u) ==
  LET at == {i \in 1..Len(u) : u[i] = "?url="}
  IN  IF at = {} THEN <<>>
      ELSE LET i == CHOOSE k \in at : \A j \in at : k <= j
           IN  [k \in 1..(Len(u) - i) |-> IF u[i + k] = "%2F" THEN "/" ELSE u[i + k]]
\* the URLs a path or URL text can stand for on the trusted origin
OnTrustedOrigin(t) == {JORUDAN_BASE_URL \o t, JORUDAN_BASE_URL \o <<"/">> \o t}

\* C21: once the second response is in, a non-empty Location header decides:
\* the third request goes to it (as given, or joined onto the trusted
\* origin) or the fetch fails with two requests issued, whatever the url
\* parameter holds; with no Location header the third request goes to the
\* decoded url parameter joined onto the trusted origin, and with neither the
\* fetch fails and only two requests are issued.
C21_FinalUrl ==
  (location # Null /\ pc # "call2") =>
    IF location # <<>>
    THEN \/ Len(requests) = 3 /\ requests[3].url \in ({location} \cup OnTrustedOrigin(location))
         \/ Len(requests) = 2 /\ Answered(500) /\ body = Null
    ELSE IF UrlParameter(requests[2].url) = <<>>
    THEN Len(requests) = 2 /\ Answered(500) /\ body = Null
    ELSE \/ Len(requests) = 3
            /\ requests[3].url \in OnTrustedOrigin(UrlParameter(requests[2].url))
         \/ Len(requests) = 2 /\ Answered(500) /\ body = Null

C21_Witness ==
  /\ location # Null
  /\ location # <<>>
  /\ UrlParameter(requests[2].url) = <<"x">>
  /\ Len(requests) = 2
  /\ Answered(500)
  /\ logged = "Invalid redirect: unexpected domain"

\* C22: a third response with a non-success status fails the fetch with the
\* HTTP error, whatever its body: no page is returned, nothing is extracted
\* and the answer is 500.
C22_ContentStatus ==
  (Len(responses) = 3 /\ ~responses[3].ok)
    => /\ Answered(500)
       /\ logged = "HTTP error! status"
       /\ body = Null
       /\ extracted = <<>>

C22_Witness ==
  /\ Len(responses) = 3
  /\ ~responses[3].ok
  /\ responses[3].html = GoodPage
  /\ response = FailureResponse

\* a candidate the filter drops: sentinel summary or blank route
MalformedCandidate(block) ==
  getSummary(block) = <<"(", ")", "(", ")">> \/ Trim(getRoute(block)) = <<>>
\* the candidate blocks of the page, in page order
CandidatesOf(html) == splitRoutes(TargetSegment(html))

\* C23: the blocks extracted are the first two candidates of the target
\* segment (all of them if fewer), and the transfers of a 200 response are
\* the summary and route of the non-malformed ones among these, in order.
C23_CapBeforeFilter ==
  (body # Null /\ SegmentCount(body) >= 3 /\ Done) =>
    LET cands == CandidatesOf(body)
        firstTwo == SubSeq(cands, 1, Min(Len(cands), 2))
        kept == SelectSeq(firstTwo, LAMBDA b : ~MalformedCandidate(b))
    IN  /\ extracted = firstTwo
        /\ Answered(200) =>
             response.body.transfers =
               [i \in 1..Len(kept) |-> <<getSummary(kept[i]), getRoute(kept[i])>>]

C23_Witness ==
  /\ Answered(200)
  /\ body # Null
  /\ Len(CandidatesOf(body)) = 3
  /\ MalformedCandidate(CandidatesOf(body)[1])
  /\ ~MalformedCandidate(CandidatesOf(body)[2])
  /\ ~MalformedCandidate(CandidatesOf(body)[3])
  /\ Len(response.body.transfers) = 1

\* C28 (as claimed): every URL requested during the invocation, by the code
\* or by the transport following a 3xx answer, is the fixed query URL or has
\* the trusted origin.
C28_NoUnvalidatedTarget ==
  /\ \A i \in 1..Len(requests) :
       requests[i].url = JORUDAN_URL \/ UrlOrigin(requests[i].url) = TrustedOrigin
  /\ \A i \in 1..Len(followed) : UrlOrigin(followed[i]) = TrustedOrigin

\* the request path with one leading /api removed, / if nothing is left
NormalizedPath ==
  LET stripped == IF RequestPath[1] = "/api" THEN Tail(RequestPath) ELSE RequestPath
  IN  IF stripped = <<>> THEN <<"/">> ELSE stripped

\* C29: once handler has taken its first step, the initial request has been
\* issued exactly if the normalized path is not /status; an event without
\* path and rawPath has the path /transit.
C29_Dispatch ==
  /\ pc # "start" => (requests # <<>> <=> NormalizedPath # <<"/status">>)
  /\ (event.path = Null /\ event.rawPath = Null) => RequestPath = <<"/transit">>

C29_Witness ==
  /\ Done
  /\ event.path = <<"/status", "/transit">>
  /\ Len(requests) = 1
  /\ response.statusCode = 200

\* C27: if every pending network call settles, every invocation eventually
\* returns a response.
C27_EventuallyReturns ==
  <>(pc = "done" /\ outcome = "returned" /\ response # NoResponse)

C27_Witness ==
  /\ pc = "done"
  /\ outcome = "returned"
  /\ Len(responses) = 3
  /\ now = 2 * 2000
  /\ response.statusCode = 200

\* the entities escapeHtml emits
Entities ==
  { <<"&", "a", "m", "p", ";">>, <<"&", "l", "t", ";">>, <<"&", "g", "t", ";">>,
    <<"&", "q", "u", "o", "t", ";">>, <<"&", "#", "3", "9", ";">> }
\* no < > " ' in the text, and every & starts an entity
Harmless(html) ==
  \A i \in 1..Len(html) :
    /\ html[i] \notin {"<", ">", "\"", "'"}
    /\ html[i] = "&" => \E e \in Entities : StartsWith(Drop(html, i - 1), e)
Rendered == fn \in {"escapeHtml", "renderRoute", "renderTransitCard", "renderErrorPage"}

\* C24: in what escapeHtml, renderRoute, the card and the error page return,
\* none of the characters < > " ' occurs outside the fixed markup, and every
\* & is the first character of one of the five entities; a text without
\* special characters is inserted unchanged.
C24_Escaped ==
  Rendered =>
    /\ Harmless(ret)
    /\ (fn = "escapeHtml" /\ \A i \in 1..Len(arg) : arg[i] \notin EscapedChars) => ret = arg

C24_Witness ==
  /\ fn = "renderTransitCard"
  /\ Includes(ret, <<"<span>", "&", "l", "t", ";", "min", "</span>">>)
  /\ Includes(ret, <<"<div class=line-name>", "&", "a", "m", "p", ";", "</div>">>)

\* the elements of a rendered timeline: <<class, text>> for each
TimelineElements(html) ==
  LET pieces == SelectSeq(SplitOnFrom(html, 1, <<>>, {"</div>"}), LAMBDA p : p # <<>>)
  IN  [i \in 1..Len(pieces) |-> <<Head(pieces[i]), Tail(pieces[i])>>]
\* the non-blank lines of a route text, each without its surrounding space
NonBlankLines(routeText) ==
  LET all == SplitOnFrom(routeText, 1, <<>>, {"nl"})
      kept == SelectSeq(all, LAMBDA l : \E k \in 1..Len(l) : l[k] \notin WhiteSpace)
  IN  [i \in 1..Len(kept) |-> Trim(kept[i])]
IsLineLabel(line) == line[1] = "bar"

\* C25 (as claimed): in renderRoute's output there is one element per
\* non-blank line, a line-name for each line starting with the route-line
\* marker and a station for every other one, and the stations marked as
\* endpoints are exactly the first station and the last station.
C25_Timeline ==
  fn = "renderRoute" =>
    LET lines == NonBlankLines(arg)
        shown == TimelineElements(ret)
        stations == {i \in 1..Len(lines) : ~IsLineLabel(lines[i])}
        endpoints == {i \in stations : \/ \A j \in stations : i <= j
                                       \/ \A j \in stations : i >= j}
    IN  /\ Len(shown) = Len(lines)
        /\ \A i \in 1..Len(lines) :
             IF IsLineLabel(lines[i])
             THEN shown[i][1] = "<div class=line-name>"
             ELSE shown[i][1] = IF i \in endpoints
                                THEN "<div class=station station-terminal>"
                                ELSE "<div class=station>"

\* what an invocation ended with was decided by a response, not by an abort
EndedByResponse(f) == f.pc = "done" /\ Len(f.requests) = Len(f.responses)

\* C26: in every interleaving, each request of an invocation carries the
\* cookies set by that invocation's own earlier responses and goes to the URL
\* its own responses determine, and two invocations of the same event that
\* received the same responses issued the same requests and returned the
\* same response.
C26_OwnSession ==
  \A i \in DOMAIN frames :
    LET f == frames[i]
        n == Len(f.requests)
    IN  /\ n >= 1 => f.requests[1] = InitialRequest
        /\ n >= 2 =>
             /\ f.requests[2].cookie = CookieHeader(CookiesSetBy(f.responses[1].setCookie))
             /\ f.requests[2].url = JORUDAN_BASE_URL \o <<"/">> \o f.responses[1].href
        /\ n >= 3 =>
             /\ f.requests[3].cookie =
                  CookieHeader(CookiesSetBy(f.responses[1].setCookie)
                               \o CookiesSetBy(f.responses[2].setCookie))
             /\ f.requests[3].url \in
                  IF f.responses[2].location # <<>>
                  THEN OnTrustedOrigin(f.responses[2].location)
                  ELSE OnTrustedOrigin(UrlParameter(f.requests[2].url))
        /\ \A j \in DOMAIN frames :
             (/\ frames[j].event = f.event
              /\ frames[j].responses = f.responses
              /\ EndedByResponse(f) /\ EndedByResponse(frames[j]))
               => frames[j].requests = f.requests /\ frames[j].response = f.response

C26_Witness ==
  /\ frames # <<>>
  /\ Len(frames[1].requests) = 3
  /\ Len(frames[2].requests) = 3
  /\ frames[1].requests[3].cookie = <<"a=1", "; ", "b=2">>
  /\ frames[2].requests[3].cookie = <<>>
  /\ frames[1].pc = "call3"
  /\ frames[2].pc = "done"

\* the calls of fetchTransit have all returned
AllReturned == calls # <<>> /\ \A i \in DOMAIN calls : calls[i].pc = "done"

====
